---- MODULE Spec2Model ----
(***************************************************************************)
(* dex-telegram bot: the order-event-to-notification pipeline.             *)
(*                                                                         *)
(* The module models the bot's entry point (startup asserts, creation of   *)
(* the chat bot, the subscription to order placements), the onNewOrder     *)
(* and onError callbacks, the chat handlers that also call sendMessage,    *)
(* and the settling of the promises sendMessage returns.                   *)
(*                                                                         *)
(* Numbers: priceNumerator and priceDenominator are bignumber.js values.   *)
(* dividedBy rounds to DECIMAL_PLACES fractional digits (half up); the     *)
(* quotient is computed here by long division, digit by digit, so that no  *)
(* intermediate value leaves the integers TLC can hold.  Token decimals    *)
(* and amounts are drawn from small sets for the same reason.              *)
(***************************************************************************)
EXTENDS Integers, Sequences, FiniteSets, TLC

VARIABLES
    env,            \* process.env: WEB_BASE_URL, TELEGRAM_TOKEN, TELEGRAM_CHANNEL_ID
    bnStrict,       \* build: does the bn.js in use reject invalid characters (>= 5) or not (4.x)
    pc,             \* position of the entry point's top-level code
    unhandledLogged,\* logUnhandledErrors() has installed the process-level handlers
    bot,            \* the TelegramBot instance exists
    subscriptions,  \* number of watchOrderPlacement calls made
    now,            \* the clock read by new Date()
    sends,          \* every bot.sendMessage call, in call order, with its promise's state
    log,            \* lines written through the Logger
    delivered,      \* orders the event source has handed to onNewOrder
    thrown,         \* exceptions that left a callback into its caller
    events          \* external events handled so far

vars == <<env, bnStrict, pc, unhandledLogged, bot, subscriptions, now, sends, log,
          delivered, thrown, events>>

-----------------------------------------------------------------------------
(* Bounds of the model *)

MaxEvents == 2
MaxTime == 1
MaxEventsCalc == 1

(* Program and library constants *)

FEE_DENOMINATOR == 1000
DECIMAL_PLACES == 20

-----------------------------------------------------------------------------
(* Environment *)

Unset == "<unset>"

EnvValues(name) ==
    CASE name = "WEB_BASE_URL" -> {Unset, "", "https://dex.example"}
      [] name = "TELEGRAM_TOKEN" -> {Unset, "", "123:abc"}
      [] name = "TELEGRAM_CHANNEL_ID" -> {Unset, "", "@dexChannel", "-1001"}

EnvNames == {"WEB_BASE_URL", "TELEGRAM_TOKEN", "TELEGRAM_CHANNEL_ID"}

\* assert(value): undefined and the empty string are falsy
Truthy(v) == v # Unset /\ v # ""

WEB_BASE_URL == env["WEB_BASE_URL"]
token == env["TELEGRAM_TOKEN"]
channelId == env["TELEGRAM_CHANNEL_ID"]

NumericStrings == {"-1001", ""}

\* isNaN(channelId): private channels are identified by numbers
isPublicChannel == channelId \notin NumericStrings
channelHandle == IF isPublicChannel THEN channelId ELSE "**private chat**"

-----------------------------------------------------------------------------
(* Decimal arithmetic *)

RECURSIVE Pow10(_)
Pow10(n) == IF n = 0 THEN 1 ELSE 10 * Pow10(n - 1)

\* The decimal digits of a non-negative integer, most significant first
RECURSIVE Digits(_)
Digits(n) == IF n < 10 THEN <<n>> ELSE Digits(n \div 10) \o <<n % 10>>

\* n fractional digits of r / den, for 0 <= r < den
RECURSIVE FracDigits(_, _, _)
FracDigits(r, den, n) ==
    IF n = 0 THEN <<>>
    ELSE <<(r * 10) \div den>> \o FracDigits((r * 10) % den, den, n - 1)

\* what is left of r after n fractional digits
RECURSIVE FracRem(_, _, _)
FracRem(r, den, n) == IF n = 0 THEN r ELSE FracRem((r * 10) % den, den, n - 1)

\* add one unit in the last place; the result is <<carry, digits>>
RECURSIVE IncDigits(_)
IncDigits(ds) ==
    IF ds = <<>> THEN <<1, <<>>>>
    ELSE LET last == ds[Len(ds)]
             front == SubSeq(ds, 1, Len(ds) - 1)
         IN IF last < 9 THEN <<0, front \o <<last + 1>>>>
            ELSE LET r == IncDigits(front) IN <<r[1], r[2] \o <<0>>>>

RECURSIVE StripZeros(_)
StripZeros(ds) ==
    IF ds # <<>> /\ ds[Len(ds)] = 0 THEN StripZeros(SubSeq(ds, 1, Len(ds) - 1)) ELSE ds

Finite(i, f) == [kind |-> "finite", int |-> i, frac |-> StripZeros(f)]
Infinity == [kind |-> "Infinity", int |-> 0, frac |-> <<>>]
NaN == [kind |-> "NaN", int |-> 0, frac |-> <<>>]

\* BigNumber.dividedBy for non-negative integers: DECIMAL_PLACES digits, ROUND_HALF_UP;
\* x / 0 is Infinity and 0 / 0 is NaN, neither throws
dividedBy(num, den) ==
    IF den = 0 THEN (IF num = 0 THEN NaN ELSE Infinity)
    ELSE LET q == num \div den
             r == num % den
             ds == FracDigits(r, den, DECIMAL_PLACES)
             up == 2 * FracRem(r, den, DECIMAL_PLACES) >= den
             inc == IncDigits(ds)
         IN IF up THEN Finite(q + inc[1], inc[2]) ELSE Finite(q, ds)

\* BigNumber.multipliedBy of two integers is exact
multipliedBy(a, b) == a * b

-----------------------------------------------------------------------------
(* Tokens and orders, as the event source delivers them *)

WETH == [symbol |-> "WETH", name |-> "Wrapped Ether", address |-> "0xc02a", decimals |-> 3]
USDC == [symbol |-> "", name |-> "USD Coin", address |-> "0xa0b8", decimals |-> 1]
DAI == [symbol |-> "", name |-> "", address |-> "0x6b17", decimals |-> 3]

\* <<buyToken, sellToken>>: buy decimals above, below and equal to the sell decimals
TokenPairs == {<<WETH, USDC>>, <<USDC, DAI>>, <<DAI, WETH>>}

\* priceNumerator.multipliedBy(FACTOR_TO_FILL_ORDER) is an integer for 0 and 500 only
Numerators == {0, 1, 2, 500}
Denominators == {0, 1, 3}

AllOrders ==
    [buyToken : {p[1] : p \in TokenPairs}, sellToken : {p[2] : p \in TokenPairs},
     validFrom : 0 .. (MaxTime + 1), validUntil : {MaxTime + 2},
     priceNumerator : Numerators, priceDenominator : Denominators]

\* the orders of the pure-function specification
CalcOrders ==
    {o \in AllOrders : /\ <<o.buyToken, o.sellToken>> \in TokenPairs
                       /\ o.validFrom \in {0, 1, MaxTime + 1}}

\* the orders of the pipeline specification: a well-formed one, one with a zero
\* denominator, one whose fill amount is no integer, one that is not tradable yet
Orders ==
    {o \in CalcOrders : /\ o.buyToken = WETH /\ o.sellToken = USDC
                        /\ \/ /\ o.priceNumerator = 500
                              /\ o.priceDenominator \in {0, 3}
                              /\ o.validFrom = 0
                           \/ /\ o.priceNumerator = 1
                              /\ o.priceDenominator = 3
                              /\ o.validFrom = MaxTime + 1}

-----------------------------------------------------------------------------
(* Strings of digits: sequences of character codes *)

CharCode0 == 48
CharCodeDot == 46

DigitChars(ds) == [i \in 1 .. Len(ds) |-> ds[i] + CharCode0]

\* BigNumber.toString of a non-negative value below 1e21 (no exponent)
toString(x) ==
    DigitChars(Digits(x.int))
        \o (IF x.frac = <<>> THEN <<>> ELSE <<CharCodeDot>> \o DigitChars(x.frac))

\* the fractional digits of r / den when the expansion ends
RECURSIVE ExactFrac(_, _)
ExactFrac(r, den) ==
    IF r = 0 THEN <<>> ELSE <<(r * 10) \div den>> \o ExactFrac((r * 10) % den, den)

\* parseBase of bn.js, base 10: c = charCodeAt(i) - 48; r = r * 10 + c
RECURSIVE parseBase(_)
parseBase(str) ==
    IF str = <<>> THEN 0
    ELSE parseBase(SubSeq(str, 1, Len(str) - 1)) * 10 + (str[Len(str)] - CharCode0)

ValidChars(str) == \A i \in 1 .. Len(str) : str[i] - CharCode0 \in 0 .. 9

\* new BN(str): bn.js 5 asserts 'Invalid character'; bn.js 4 adds the code of
\* any character (strings of at most one limb, seven characters)
BN(str, strict) ==
    IF ValidChars(str) \/ ~strict
    THEN [threw |-> FALSE, value |-> parseBase(str)]
    ELSE [threw |-> TRUE, value |-> 0]

-----------------------------------------------------------------------------
(* The pipeline's pure steps *)

\* 1 + 2 / FEE_DENOMINATOR, the number 1.002
FACTOR_TO_FILL_ORDER == [num |-> FEE_DENOMINATOR + 2, den |-> FEE_DENOMINATOR]

\* priceNumerator.multipliedBy(FACTOR_TO_FILL_ORDER): an exact decimal
multipliedByFactor(n) ==
    LET p == n * FACTOR_TO_FILL_ORDER.num
    IN Finite(p \div FACTOR_TO_FILL_ORDER.den,
              ExactFrac(p % FACTOR_TO_FILL_ORDER.den, FACTOR_TO_FILL_ORDER.den))

\* mutant: the ratio of the raw amounts, the decimals ignored
PriceIgnoringDecimals(order) == dividedBy(order.priceNumerator, order.priceDenominator)

Price(order) ==
    IF order.buyToken.decimals >= order.sellToken.decimals
    THEN LET precisionFactor == Pow10(order.buyToken.decimals - order.sellToken.decimals)
         IN dividedBy(order.priceNumerator,
                      multipliedBy(order.priceDenominator, precisionFactor))
    ELSE LET precisionFactor == Pow10(order.sellToken.decimals - order.buyToken.decimals)
         IN dividedBy(multipliedBy(order.priceNumerator, precisionFactor),
                      order.priceDenominator)

\* symbol || name || address
TokenLabel(t) == IF t.symbol # "" THEN t.symbol ELSE IF t.name # "" THEN t.name ELSE t.address

\* moment(d).calendar() and moment(d).fromNow(), evaluated at time t
DateLine(label, d, t) == [label |-> label, calendar |-> d, fromNow |-> d - t]

\* mutant: an order whose window opens right now is still shown as not tradable
DatesDescriptionInclusive(order, t) ==
    (IF order.validFrom >= t THEN <<DateLine("Tradable", order.validFrom, t)>> ELSE <<>>)
        \o <<DateLine("Expires", order.validUntil, t)>>

DatesDescription(order, t) ==
    (IF order.validFrom > t THEN <<DateLine("Tradable", order.validFrom, t)>> ELSE <<>>)
        \o <<DateLine("Expires", order.validUntil, t)>>

formatAmount(amount, decimals) == [amount |-> amount, decimals |-> decimals, digits |-> "display"]
formatAmountFull(amount, decimals) == [amount |-> amount, decimals |-> decimals, digits |-> "full"]

\* new BN(priceNumerator.multipliedBy(FACTOR_TO_FILL_ORDER).toString())
FillAmount(order, strict) == BN(toString(multipliedByFactor(order.priceNumerator)), strict)

\* the message onNewOrder composes at time t, once no constructor has thrown
Message(order, t, strict, baseUrl) ==
    [kind |-> "order",
     sellAmountFmt |-> formatAmount(order.priceDenominator, order.sellToken.decimals),
     sellTokenLabel |-> TokenLabel(order.sellToken),
     buyAmountFmt |-> formatAmount(order.priceNumerator, order.buyToken.decimals),
     buyTokenLabel |-> TokenLabel(order.buyToken),
     price |-> Price(order),
     datesDescription |-> DatesDescription(order, t),
     link |-> [base |-> baseUrl,
               pair |-> <<TokenLabel(order.buyToken), TokenLabel(order.sellToken)>>,
               sell |-> formatAmountFull(FillAmount(order, strict).value,
                                         order.buyToken.decimals),
               buy |-> formatAmountFull(order.priceDenominator, order.sellToken.decimals)]]

-----------------------------------------------------------------------------
(* Logger lines and sendMessage calls *)

\* chat ids, written as the decimal strings the channel id is given in
Chats == {"42"}
Texts == {"hello", "/start", "/about", "/foo"}

LogLine(level, msg) == [level |-> level, msg |-> msg]

\* the process-level handlers logUnhandledErrors() installs: the error is logged
\* and the process goes on
UnhandledError(what) == LogLine("error", what)

\* bot.sendMessage(chat, text, opts): the call and the promise it returns;
\* caught tells whether the caller handles a rejection of that promise
SendMessage(chat, text, opts, caught) ==
    [chat |-> chat, text |-> text, opts |-> opts, status |-> "pending", caught |-> caught]

\* mutant: the announcement's promise is given a catch handler
ChannelSendCaught(message) == SendMessage(channelId, message, "Markdown", TRUE)

\* bot.sendMessage(channelId, message, { parse_mode: 'Markdown' }), not awaited
ChannelSend(message) == SendMessage(channelId, message, "Markdown", FALSE)

HelpText == [kind |-> "help", channelHandle |-> channelHandle]
AboutText == [kind |-> "about"]
UnknownText == [kind |-> "unknown command"]

IsAnnouncement(s) == s.text.kind = "order"
Announcements == SelectSeq(sends, IsAnnouncement)

-----------------------------------------------------------------------------
(* Startup: the top-level code of the entry point, in program order *)

Init ==
    /\ env \in [EnvNames -> UNION {EnvValues(n) : n \in EnvNames}]
    /\ \A n \in EnvNames : env[n] \in EnvValues(n)
    /\ bnStrict \in BOOLEAN
    /\ pc = "assertWebBaseUrl"
    /\ unhandledLogged = FALSE
    /\ bot = FALSE
    /\ subscriptions = 0
    /\ now = 0
    /\ sends = <<>>
    /\ log = <<>>
    /\ delivered = <<>>
    /\ thrown = 0
    /\ events = 0

Startup(from, ok, to) ==
    /\ pc = from
    /\ pc' = IF ok THEN to ELSE "aborted"

AssertWebBaseUrl ==
    /\ Startup("assertWebBaseUrl", Truthy(WEB_BASE_URL), "logUnhandledErrors")
    /\ UNCHANGED <<env, bnStrict, unhandledLogged, bot, subscriptions, now, sends, log,
                   delivered, thrown, events>>

LogUnhandledErrors ==
    /\ Startup("logUnhandledErrors", TRUE, "assertToken")
    /\ unhandledLogged' = TRUE
    /\ UNCHANGED <<env, bnStrict, bot, subscriptions, now, sends, log, delivered, thrown,
                   events>>

\* a failed assert throws out of the module: nothing after it runs; the handler
\* installed above logs the AssertionError
AssertToken ==
    /\ Startup("assertToken", Truthy(token), "assertChannelId")
    /\ log' = IF Truthy(token) THEN log
              ELSE Append(log, UnhandledError("TELEGRAM_TOKEN env var is required"))
    /\ UNCHANGED <<env, bnStrict, unhandledLogged, bot, subscriptions, now, sends,
                   delivered, thrown, events>>

\* mutant: the channel id is only required to be defined
AssertChannelIdDefined ==
    /\ Startup("assertChannelId", channelId # Unset, "createBot")
    /\ log' = IF channelId # Unset THEN log
              ELSE Append(log, UnhandledError("TELEGRAM_CHANNEL_ID env var is required"))
    /\ UNCHANGED <<env, bnStrict, unhandledLogged, bot, subscriptions, now, sends,
                   delivered, thrown, events>>

AssertChannelId ==
    /\ Startup("assertChannelId", Truthy(channelId), "createBot")
    /\ log' = IF Truthy(channelId) THEN log
              ELSE Append(log, UnhandledError("TELEGRAM_CHANNEL_ID env var is required"))
    /\ UNCHANGED <<env, bnStrict, unhandledLogged, bot, subscriptions, now, sends,
                   delivered, thrown, events>>

\* new TelegramBot(token, { polling: true }), and the handlers registered on it
CreateBot ==
    /\ Startup("createBot", TRUE, "watchOrderPlacement")
    /\ bot' = TRUE
    /\ UNCHANGED <<env, bnStrict, unhandledLogged, subscriptions, now, sends, log,
                   delivered, thrown, events>>

WatchOrderPlacement ==
    /\ Startup("watchOrderPlacement", TRUE, "running")
    /\ subscriptions' = subscriptions + 1
    /\ log' = Append(log, LogLine("info", "The bot is up :)"))
    /\ UNCHANGED <<env, bnStrict, unhandledLogged, bot, now, sends, delivered, thrown,
                   events>>

-----------------------------------------------------------------------------
(* Callbacks, once the top-level code has run *)

Listening == pc = "running" /\ subscriptions > 0 /\ events < MaxEvents

\* mutant: the message is sent a second time
OnNewOrderTwice(order) ==
    /\ Listening
    /\ delivered' = Append(delivered, [order |-> order, at |-> now])
    /\ events' = events + 1
    /\ IF FillAmount(order, bnStrict).threw
       THEN /\ thrown' = thrown + 1
            /\ log' = Append(log, UnhandledError("Invalid character"))
            /\ UNCHANGED sends
       ELSE /\ sends' = sends \o
                            <<ChannelSend(Message(order, now, bnStrict, WEB_BASE_URL)),
                              ChannelSend(Message(order, now, bnStrict, WEB_BASE_URL))>>
            /\ UNCHANGED <<thrown, log>>
    /\ UNCHANGED <<env, bnStrict, pc, unhandledLogged, bot, subscriptions, now>>

\* mutant: an order is dropped while the send of an earlier one has not settled
OnNewOrderOneAtATime(order) ==
    /\ Listening
    /\ delivered' = Append(delivered, [order |-> order, at |-> now])
    /\ events' = events + 1
    /\ IF FillAmount(order, bnStrict).threw
       THEN /\ thrown' = thrown + 1
            /\ log' = Append(log, UnhandledError("Invalid character"))
            /\ UNCHANGED sends
       ELSE /\ sends' = IF \E i \in DOMAIN sends : sends[i].status = "pending"
                        THEN sends
                        ELSE Append(sends,
                                    ChannelSend(Message(order, now, bnStrict, WEB_BASE_URL)))
            /\ UNCHANGED <<thrown, log>>
    /\ UNCHANGED <<env, bnStrict, pc, unhandledLogged, bot, subscriptions, now>>

\* onNewOrder: the constructor of the fill amount is the one statement that can
\* throw; the exception leaves the callback before anything is sent
OnNewOrder(order) ==
    /\ Listening
    /\ delivered' = Append(delivered, [order |-> order, at |-> now])
    /\ events' = events + 1
    /\ IF FillAmount(order, bnStrict).threw
       THEN /\ thrown' = thrown + 1
            /\ log' = Append(log, UnhandledError("Invalid character"))
            /\ UNCHANGED sends
       ELSE /\ sends' = Append(sends,
                               ChannelSend(Message(order, now, bnStrict, WEB_BASE_URL)))
            /\ UNCHANGED <<thrown, log>>
    /\ UNCHANGED <<env, bnStrict, pc, unhandledLogged, bot, subscriptions, now>>

WatchError == "Error watching order placements: "

\* mutant: a subscription error ends the process
OnErrorFatal(error) ==
    /\ Listening
    /\ log' = Append(log, LogLine("error", WatchError))
    /\ events' = events + 1
    /\ pc' = "aborted"
    /\ UNCHANGED <<env, bnStrict, unhandledLogged, bot, subscriptions, now, sends,
                   delivered, thrown>>

\* mutant: a subscription error makes the bot subscribe again
OnErrorResubscribes(error) ==
    /\ Listening
    /\ log' = Append(log, LogLine("error", WatchError))
    /\ events' = events + 1
    /\ subscriptions' = subscriptions + 1
    /\ UNCHANGED <<env, bnStrict, pc, unhandledLogged, bot, now, sends, delivered, thrown>>

OnError(error) ==
    /\ Listening
    /\ log' = Append(log, LogLine("error", WatchError))
    /\ events' = events + 1
    /\ UNCHANGED <<env, bnStrict, pc, unhandledLogged, bot, subscriptions, now, sends,
                   delivered, thrown>>

\* A chat message: the 'message' handler answers everything that is no command
\* with the help text; the onText handler runs the command.  getAbout may reject.
OnMessage(chat, text, aboutOk) ==
    /\ pc = "running" /\ bot /\ events < MaxEvents
    /\ events' = events + 1
    /\ CASE text = "hello" ->
              /\ sends' = Append(sends, SendMessage(chat, HelpText, "none", FALSE))
              /\ log' = Append(log, LogLine("debug", "Received msg"))
         [] text = "/start" ->
              /\ sends' = Append(sends, SendMessage(chat, HelpText, "none", FALSE))
              /\ log' = Append(log, LogLine("debug", "New command"))
         [] text = "/about" /\ aboutOk ->
              /\ sends' = Append(sends, SendMessage(chat, AboutText, "none", FALSE))
              /\ log' = Append(log, LogLine("debug", "New command"))
         [] text = "/about" /\ ~aboutOk ->
              /\ sends' = sends
              /\ log' = log \o <<LogLine("debug", "New command"),
                                 LogLine("error", "Error running command for message"),
                                 LogLine("error", "getAbout")>>
         [] OTHER ->
              /\ sends' = Append(sends, SendMessage(chat, UnknownText, "none", TRUE))
              /\ log' = Append(log, LogLine("debug", "New command"))
    /\ UNCHANGED <<env, bnStrict, pc, unhandledLogged, bot, subscriptions, now, delivered,
                   thrown>>

\* The sink settles the promise of the i-th call.  A rejection nobody handles
\* is an unhandled rejection of the process.
SettleSend(i, ok) ==
    /\ pc = "running"
    /\ i \in 1 .. Len(sends)
    /\ sends[i].status = "pending"
    /\ sends' = [sends EXCEPT ![i].status = IF ok THEN "resolved" ELSE "rejected"]
    /\ log' = IF ok THEN log
              ELSE IF sends[i].caught
              THEN log \o <<LogLine("error", "Error running command for message"),
                            LogLine("error", "sendMessage")>>
              ELSE Append(log, UnhandledError("unhandledRejection"))
    /\ UNCHANGED <<env, bnStrict, pc, unhandledLogged, bot, subscriptions, now, delivered,
                   thrown, events>>

Tick ==
    /\ pc = "running"
    /\ now < MaxTime
    /\ now' = now + 1
    /\ UNCHANGED <<env, bnStrict, pc, unhandledLogged, bot, subscriptions, sends, log,
                   delivered, thrown, events>>

Next ==
    \/ AssertWebBaseUrl
    \/ LogUnhandledErrors
    \/ AssertToken
    \/ AssertChannelId
    \/ CreateBot
    \/ WatchOrderPlacement
    \/ \E order \in Orders : OnNewOrder(order)
    \/ \E error \in {"connection lost"} : OnError(error)
    \/ \E chat \in Chats, text \in Texts, aboutOk \in BOOLEAN : OnMessage(chat, text, aboutOk)
    \/ \E i \in 1 .. Len(sends), ok \in BOOLEAN : SettleSend(i, ok)
    \/ Tick

Spec == Init /\ [][Next]_vars

-----------------------------------------------------------------------------
(* The pure steps on their own: the first orders a running bot receives, drawn *)
(* from CalcOrders, at any time of the clock                                  *)

InitCalc ==
    /\ env \in [EnvNames -> UNION {EnvValues(n) : n \in EnvNames}]
    /\ \A n \in EnvNames : env[n] \in EnvValues(n) /\ Truthy(env[n])
    /\ bnStrict \in BOOLEAN
    /\ pc = "running"
    /\ unhandledLogged = TRUE
    /\ bot = TRUE
    /\ subscriptions = 1
    /\ now \in 0 .. MaxTime
    /\ sends = <<>>
    /\ log = <<[level |-> "info", msg |-> "The bot is up :)"]>>
    /\ delivered = <<>>
    /\ thrown = 0
    /\ events = 0

NextCalc == \E order \in CalcOrders : Len(delivered) < MaxEventsCalc /\ OnNewOrder(order)

SpecCalc == InitCalc /\ [][NextCalc]_vars

-----------------------------------------------------------------------------
(* What the event source delivered, against what the sink received *)

Formats(d) == ~FillAmount(d.order, bnStrict).threw

\* the delivered orders whose processing reached the send, in delivery order
Announced == SelectSeq(delivered, Formats)

-----------------------------------------------------------------------------
(* Claims *)

\* C1: an order with priceDenominator = 0 ends in an error and is never sent:
\* each such delivery has thrown, and no announcement shows a zero sell amount
\* or an Infinity/NaN price.
C1_ZeroDenominatorRejected ==
    /\ Cardinality({i \in DOMAIN delivered : delivered[i].order.priceDenominator = 0})
           <= thrown
    /\ \A j \in DOMAIN Announcements :
           /\ Announcements[j].text.sellAmountFmt.amount # 0
           /\ Announcements[j].text.price.kind = "finite"

\* C2: for priceDenominator > 0 the announced price is
\* priceNumerator / (priceDenominator * 10^(buy - sell)) when buy >= sell decimals,
\* (priceNumerator * 10^(sell - buy)) / priceDenominator otherwise, and
\* priceNumerator / priceDenominator when the decimals are equal (division as
\* the numeric library divides).
C2_PriceNormalized ==
    /\ Len(Announcements) = Len(Announced)
    /\ \A j \in DOMAIN Announcements :
           LET o == Announced[j].order
               pn == o.priceNumerator
               pd == o.priceDenominator
               bd == o.buyToken.decimals
               sd == o.sellToken.decimals
               price == Announcements[j].text.price
           IN pd > 0 =>
                  /\ bd >= sd => price = dividedBy(pn, pd * Pow10(bd - sd))
                  /\ bd < sd => price = dividedBy(pn * Pow10(sd - bd), pd)
                  /\ bd = sd => price = dividedBy(pn, pd)

\* an announced order whose sell token has more decimals and whose quotient
\* does not end (a third), and so is rounded
C2_Witness ==
    \E j \in DOMAIN Announcements :
        /\ j \in DOMAIN Announced
        /\ Announced[j].order.buyToken.decimals < Announced[j].order.sellToken.decimals
        /\ Announced[j].order.priceDenominator = 3
        /\ Announced[j].order.priceNumerator = 2
        /\ Len(Announcements[j].text.price.frac) = DECIMAL_PLACES

\* C3, as claimed: a rejected announcement is caught by a handler attached to
\* that send.
C3_RejectionCaughtAtSend ==
    \A i \in DOMAIN sends :
        IsAnnouncement(sends[i]) /\ sends[i].status = "rejected" => sends[i].caught

RejectedNow(i) ==
    /\ i \in DOMAIN sends
    /\ IsAnnouncement(sends[i])
    /\ sends[i].status = "pending"
    /\ i \in DOMAIN sends'
    /\ sends'[i].status = "rejected"

\* C3, amended: no handler is attached to an announcement's send; its rejection
\* surfaces as an unhandled rejection, which the process-level handler logs; it
\* does not reach the event source (nothing is thrown, the subscription stays)
\* and nothing is sent again.
C3_RejectionLoggedNotRetried ==
    [][\A i \in DOMAIN sends :
           RejectedNow(i) =>
               /\ ~sends[i].caught
               /\ log' = Append(log, [level |-> "error", msg |-> "unhandledRejection"])
               /\ Len(sends') = Len(sends)
               /\ \A k \in DOMAIN sends : k # i => sends'[k] = sends[k]
               /\ thrown' = thrown
               /\ delivered' = delivered
               /\ subscriptions' = subscriptions
               /\ pc' = pc]_vars

C3_Witness ==
    \E i \in DOMAIN sends :
        /\ IsAnnouncement(sends[i])
        /\ sends[i].status = "rejected"
        /\ \E k \in DOMAIN log : log[k].msg = "unhandledRejection"

\* C4: the trade window of an announcement is a Tradable line followed by an
\* Expires line when validFrom > now, and the Expires line alone when
\* validFrom <= now.
C4_TradeWindow ==
    /\ Len(Announcements) = Len(Announced)
    /\ \A j \in DOMAIN Announcements :
           LET o == Announced[j].order
               t == Announced[j].at
               d == Announcements[j].text.datesDescription
           IN /\ o.validFrom > t =>
                     /\ Len(d) = 2
                     /\ d[1].label = "Tradable" /\ d[1].calendar = o.validFrom
                     /\ d[2].label = "Expires" /\ d[2].calendar = o.validUntil
              /\ o.validFrom <= t =>
                     /\ Len(d) = 1
                     /\ d[1].label = "Expires" /\ d[1].calendar = o.validUntil
              /\ Cardinality({k \in DOMAIN d : d[k].label = "Expires"}) = 1
              /\ Cardinality({k \in DOMAIN d : d[k].label = "Tradable"}) <= 1

\* an order announced at the very time its window opens
C4_Witness ==
    \E j \in DOMAIN Announcements :
        /\ j \in DOMAIN Announced
        /\ Announced[j].order.validFrom = Announced[j].at
        /\ Announced[j].at > 0
        /\ Len(Announcements[j].text.datesDescription) = 1

\* C5: in every state, so as soon as the callback has returned, each delivered
\* order whose formatting succeeds has been sent exactly once, to the
\* configured channel with parse_mode Markdown; no other call uses that parse
\* mode, and the announcements never outnumber the orders delivered.
C5_AtMostOnce ==
    /\ Len(Announcements) = Len(Announced)
    /\ Len(Announcements) <= Len(delivered)
    /\ \A j \in DOMAIN Announcements :
           /\ Announcements[j].chat = channelId
           /\ Announcements[j].opts = "Markdown"
           /\ j \in DOMAIN Announced =>
                  Announcements[j].text.buyAmountFmt.amount = Announced[j].order.priceNumerator
    /\ \A i \in DOMAIN sends :
           sends[i].opts = "Markdown" => IsAnnouncement(sends[i])

C5_Witness ==
    /\ Len(delivered) = 2
    /\ Len(Announcements) = 2
    /\ Len(sends) = 2
    /\ delivered[1] = delivered[2]

Failure ==
    \/ thrown > 0
    \/ \E k \in DOMAIN log : log[k].msg = WatchError
    \/ \E i \in DOMAIN sends : sends[i].status = "rejected"

\* C6: after a failed event, a subscription error or a rejected send the
\* process is still running and subscribed, so that onNewOrder still takes
\* every order the source delivers; and every order delivered so far whose formatting
\* succeeds, those delivered after the failure included, has been handed to
\* the sink.
C6_NoErrorIsFatal ==
    Failure =>
        /\ pc = "running"
        /\ subscriptions = 1
        /\ bot
        /\ events < MaxEvents => Listening
        /\ Len(Announcements) = Len(Announced)
        /\ \A j \in DOMAIN Announcements :
               /\ Announcements[j].chat = channelId
               /\ j \in DOMAIN Announced =>
                      Announcements[j].text.sellAmountFmt.amount
                          = Announced[j].order.priceDenominator

\* an order announced after the processing of an earlier one has thrown
C6_Witness ==
    /\ Len(delivered) = 2
    /\ ~Formats(delivered[1])
    /\ Formats(delivered[2])
    /\ thrown = 1
    /\ Len(Announcements) = 1

\* C7: every order with a positive priceNumerator gets a fill amount, the sell
\* amount of the link, which is priceNumerator * (1 + 2 / FEE_DENOMINATOR)
\* rounded to an integer: strictly above priceNumerator and less than one unit
\* away from the product.
C7_FillAmount ==
    /\ \A i \in DOMAIN delivered :
           delivered[i].order.priceNumerator > 0 => Formats(delivered[i])
    /\ \A j \in DOMAIN Announcements :
           LET raw == Announcements[j].text.buyAmountFmt.amount
               fill == Announcements[j].text.link.sell.amount
               diff == fill * FEE_DENOMINATOR - raw * (FEE_DENOMINATOR + 2)
           IN raw > 0 =>
                  /\ fill > raw
                  /\ diff < FEE_DENOMINATOR
                  /\ -diff < FEE_DENOMINATOR

Complete == \A n \in EnvNames : Truthy(env[n])

\* C8: with any of the three settings missing the process aborts before the
\* bot exists, before watchOrderPlacement is called and before any message is
\* sent; a subscription exists only when all three are set.
C8_FailFast ==
    /\ ~Complete =>
           /\ ~bot
           /\ subscriptions = 0
           /\ sends = <<>>
           /\ pc \in {"assertWebBaseUrl", "logUnhandledErrors", "assertToken",
                      "assertChannelId", "aborted"}
    /\ pc = "aborted" => ~Complete
    /\ subscriptions > 0 => Complete /\ bot

\* the last of the three asserts aborts on an empty channel id
C8_Witness ==
    /\ pc = "aborted"
    /\ Truthy(WEB_BASE_URL)
    /\ Truthy(token)
    /\ channelId = ""
    /\ ~bot

\* C9: a step that logs a subscription error logs that one line and changes
\* nothing else: no message is sent, watchOrderPlacement is not called again,
\* the subscription and the rest of the state stay as they are.
C9_OnErrorOnlyLogs ==
    [][Len(log') > Len(log) /\ log'[Len(log')].msg = WatchError =>
           /\ log' = Append(log, [level |-> "error", msg |-> WatchError])
           /\ UNCHANGED <<env, bnStrict, pc, unhandledLogged, bot, subscriptions, now,
                          sends, delivered, thrown>>]_vars

C9_Witness ==
    /\ \E k \in DOMAIN log : log[k].msg = WatchError
    /\ \E i \in DOMAIN sends : sends[i].status = "pending"
    /\ subscriptions = 1

\* C10: the j-th announcement is the message of the j-th order that formats,
\* composed from that order, the time of its delivery and the configuration
\* alone, whatever became of earlier events and of their sends.
C10_SelfContained ==
    /\ Len(Announcements) = Len(Announced)
    /\ \A j \in DOMAIN Announcements :
           j \in DOMAIN Announced =>
               Announcements[j].text =
                   Message(Announced[j].order, Announced[j].at, bnStrict, WEB_BASE_URL)

\* a later order announced, at a later time, while the send of an earlier one
\* is still pending; the later send has been rejected meanwhile
C10_Witness ==
    /\ Len(Announcements) = 2
    /\ Len(Announced) = 2
    /\ Announced[1].at < Announced[2].at
    /\ Announcements[1].status = "pending"
    /\ Announcements[2].status = "rejected"

====
